---- MODULE Spec2Model ----
(***************************************************************************)
(* Model of trainer.py: AgentFormerTrainer (a LightningModule) and the     *)
(* helpers format_agentformer_trajectories / save_trajectories.            *)
(*                                                                         *)
(* Each part of the trainer has its own specification over the same        *)
(* variables:                                                              *)
(*   SpecInit   - AgentFormerTrainer.__init__ (worker pool sizing)         *)
(*   SpecEpoch  - _epoch_end with the multiprocessing pool or starmap      *)
(*   SpecVal    - validation_step / on_validation_epoch_end                *)
(*   SpecCkpt   - on_load_checkpoint                                       *)
(*   SpecFormat - format_agentformer_trajectories and test_step's dumps    *)
(*   SpecFit    - the framework's fit loop driving the trainer's hooks     *)
(***************************************************************************)
EXTENDS Integers, Sequences, FiniteSets, TLC

VARIABLES
    \* ---- __init__ ----
    cpu_count,          \* multiprocessing.cpu_count()
    devices,            \* args.devices: <<>> is None, <<d>> is the integer d
    args_num_workers,   \* args.num_workers
    self_num_workers,   \* self.num_workers: <<>> before __init__, <<w>> after
    \* ---- _epoch_end ----
    outputs,            \* the step outputs handed to _epoch_end (output kinds)
    mode,               \* 'train' / 'val' / 'test' as a character sequence
    mp,                 \* args.mp
    pc,                 \* position inside _epoch_end
    taskq,              \* the pool's task queue: chunk numbers not yet taken
    worker,             \* per pool worker: 0 idle, otherwise the chunk it runs
    value,              \* MapResult._value: one slot per task, <<>> = unset
    success,            \* MapResult._success
    number_left,        \* MapResult._number_left
    evalCalls,          \* how many times eval_one_seq ran for each sequence
    results_dict,       \* results_dict of _epoch_end, <<>> while not built
    logged,             \* the self.log calls of the latest _epoch_end, in order
    printed,            \* the console lines of the latest _epoch_end, in order
    exc,                \* the exception that left _epoch_end, "none" if none
    \* ---- validation_step / on_validation_epoch_end ----
    validation_step_outputs,  \* self.validation_step_outputs
    valSince,           \* outputs of the validation_step calls made since the
                        \* latest on_validation_epoch_end call
    valExpected,        \* valSince as it was when that call was made
    valAggregated,      \* the list that call handed to _epoch_end
    valLast,            \* the latest call: "none", "step", "epoch_end"
    valCalls,           \* number of calls made
    \* ---- on_load_checkpoint ----
    checkpoint,         \* the checkpoint dictionary
    ckptBefore,         \* the checkpoint as it was handed to on_load_checkpoint
    ckptResult,         \* "none" before the call, then "returned" or "KeyError"
    \* ---- format_agentformer_trajectories / test_step ----
    cfg_dataset,        \* cfg.dataset as a character sequence
    batch,              \* the batch: valid_id, pred_mask, frame, frame_scale,
                        \* fut_data, pre_data (arrays are functions from 0)
    save_traj,          \* args.save_traj
    n_samples,          \* number of samples in pred_motion
    fmtCall,            \* <<>>, or the timesteps/future arguments of the call
    fmtOut,             \* what format_agentformer_trajectories gave
    saved,              \* the arrays test_step handed to save_trajectories
    tsResult,           \* "none", then "returned" or "NotImplementedError"
    \* ---- a fit run ----
    fitPc,              \* where the framework's fit loop is
    fitEpoch,           \* number of training epochs ended
    fitBatch,           \* batches of the running loop handled so far
    device_set,         \* model.set_device was called
    train_aggregated,   \* number of _epoch_end(outputs, 'train') calls
    annealer_steps      \* number of model.step_annealer calls

initVars  == <<cpu_count, devices, args_num_workers, self_num_workers>>
epochVars == <<outputs, mode, mp, pc, taskq, worker, value,
               success, number_left, evalCalls, results_dict, logged,
               printed, exc>>
valVars   == <<validation_step_outputs, valSince, valExpected, valAggregated,
               valLast, valCalls>>
ckptVars  == <<checkpoint, ckptBefore, ckptResult>>
fmtVars   == <<cfg_dataset, batch, save_traj, n_samples, fmtCall, fmtOut, saved,
               tsResult>>
fitVars   == <<fitPc, fitEpoch, fitBatch, device_set, train_aggregated,
               annealer_steps>>
vars == <<initVars, epochVars, valVars, ckptVars, fmtVars, fitVars>>

----------------------------------------------------------------------------
(* Bounds of the model *)
MaxCpu        == 6
MaxDevices    == 3
MaxArgWorkers == 6
MaxSeqs       == 4
MaxWorkers    == 2
MaxValCalls   == 5
MaxAgents     == 2
MaxSamples    == 2
MaxTimesteps  == 2
MaxEpochs     == 3
MaxBatches    == 2

----------------------------------------------------------------------------
(* Small helpers *)
Min(a, b) == IF a <= b THEN a ELSE b

RECURSIVE SumSeq(_)
SumSeq(s) == IF s = <<>> THEN 0 ELSE Head(s) + SumSeq(Tail(s))

\* Python's  sub in s  on strings, strings being character sequences
Contains(sub, s) ==
    \E i \in 1..(Len(s) - Len(sub) + 1) : SubSeq(s, i, i + Len(sub) - 1) = sub

----------------------------------------------------------------------------
(* AgentFormerTrainer.__init__, lines 85-86 *)

\* the 1e-5 added to args.devices, as the fraction 1 / EpsDenominator
EpsDenominator == 100000

\* int(cpu_count / (args.devices + 1e-5)), computed exactly:
\* c / (d + 1/E) = c*E / (d*E + 1), truncated towards zero
PoolSizeLimit(c, d) == (c * EpsDenominator) \div (d * EpsDenominator + 1)

\* min(args.num_workers, num_workers); float('inf') when args.devices is None
InitNumWorkers(c, dv, nw) ==
    IF dv = <<>> THEN nw ELSE Min(nw, PoolSizeLimit(c, dv[1]))

EpochIdle ==
    /\ outputs = <<>> /\ mode = <<>> /\ mp = FALSE
    /\ pc = "idle" /\ taskq = <<>> /\ worker = <<>> /\ value = <<>>
    /\ success = TRUE /\ number_left = 0 /\ evalCalls = <<>>
    /\ results_dict = <<>> /\ logged = <<>> /\ printed = <<>> /\ exc = "none"

CtorIdle ==
    cpu_count = 1 /\ devices = <<>> /\ args_num_workers = 1 /\ self_num_workers = <<1>>

ValIdle ==
    /\ validation_step_outputs = <<>> /\ valSince = <<>> /\ valExpected = <<>>
    /\ valAggregated = <<>> /\ valLast = "none" /\ valCalls = 0

CkptIdle ==
    checkpoint = <<>> /\ ckptBefore = <<>> /\ ckptResult = "none"

FitIdle ==
    /\ fitPc = "off" /\ fitEpoch = 0 /\ fitBatch = 0 /\ device_set = FALSE
    /\ train_aggregated = 0 /\ annealer_steps = 0

FmtIdle ==
    /\ cfg_dataset = <<>> /\ batch = <<>> /\ save_traj = FALSE /\ n_samples = 0
    /\ fmtCall = <<>> /\ fmtOut = <<>> /\ saved = <<>> /\ tsResult = "none"

\* what __init__'s pool sizing does not touch
ctorFrame == <<epochVars, valVars, ckptVars, fmtVars, fitVars>>

InitCtor ==
    /\ cpu_count \in 1..MaxCpu
    /\ devices \in {<<>>} \cup {<<d>> : d \in 1..MaxDevices}
    /\ args_num_workers \in 1..MaxArgWorkers
    /\ self_num_workers = <<>>
    /\ EpochIdle /\ ValIdle /\ CkptIdle /\ FmtIdle /\ FitIdle

Construct ==
    /\ self_num_workers = <<>>
    /\ self_num_workers' = <<InitNumWorkers(cpu_count, devices, args_num_workers)>>
    /\ UNCHANGED <<cpu_count, devices, args_num_workers, ctorFrame>>

NextCtor == Construct
SpecInit == InitCtor /\ [][NextCtor]_vars

\* C2: after __init__, self.num_workers = min(args.num_workers,
\* floor(cpu_count / args.devices)) for an integer args.devices >= 1, and
\* self.num_workers = args.num_workers when args.devices is None.
PoolSizedByCpuPerDevice ==
    self_num_workers # <<>> =>
        self_num_workers[1] =
            IF devices = <<>> THEN args_num_workers
            ELSE Min(args_num_workers, cpu_count \div devices[1])

----------------------------------------------------------------------------
(* _epoch_end, lines 155-193 *)

\* stats_func.keys() (imported at line 11), in the dictionary's order, each
\* key a character sequence
StatsKeys ==
    << <<"A","D","E">>,
       <<"F","D","E","_","j","o","i","n","t">>,
       <<"C","R","_","m","e","a","n">> >>

Modes == { <<"t","r","a","i","n">>, <<"v","a","l">>, <<"t","e","s","t">> }
TestMode == <<"t","e","s","t">>

\* A step output: gt_motion.shape[0] agents and the sequence it was made
\* from; eval_one_seq (imported at line 10) is a pure function of the output:
\* it returns one value per key of stats_func, or raises.
StepOutputs ==
    { [n_agents |-> 1, seq |-> "s1"],
      [n_agents |-> 3, seq |-> "s2"],
      [n_agents |-> 2, seq |-> "s3"] }

EvalRaises(o) == o.seq = "s3"

eval_one_seq(o) ==
    CASE o.seq = "s1" -> <<4, 2, 1>>
      [] o.seq = "s2" -> <<1, 5, 0>>
      [] OTHER        -> <<>>

\* f'{mode}/{key}'
LogName(m, key) == m \o <<"/">> \o key

\* line 175: '_joint' in key or 'CR' in key
IsSequenceBased(key) ==
    \/ Contains(<<"_","j","o","i","n","t">>, key)
    \/ Contains(<<"C","R">>, key)

\* np.mean(values), kept as the fraction <<numerator, denominator>>
Mean(values) == <<SumSeq(values), Len(values)>>

\* np.sum(values * num_agent_per_seq) / np.sum(num_agent_per_seq)
WeightedMeanNoWeights(values, agents) == <<SumSeq(values), SumSeq(agents)>>
WeightedMean(values, agents) ==
    << SumSeq([i \in 1..Len(values) |-> values[i] * agents[i]]), SumSeq(agents) >>

\* lines 171-179: all_metrics holds one metric tuple per sequence, outs the
\* step outputs; the k-th column of all_metrics goes with the k-th key
Aggregate(all_metrics, outs) ==
    LET num_agent_per_seq == [i \in 1..Len(outs) |-> outs[i].n_agents]
        ncols == Min(Len(StatsKeys), Len(all_metrics[1]))
        column(k) == [i \in 1..Len(all_metrics) |-> all_metrics[i][k]]
    IN  [k \in 1..ncols |->
            [key   |-> StatsKeys[k],
             value |-> IF IsSequenceBased(StatsKeys[k])
                       THEN Mean(column(k))
                       ELSE WeightedMean(column(k), num_agent_per_seq)]]

\* self.current_epoch while _epoch_end runs
current_epoch == 0

\* lines 185-189, the console lines of test mode, each a tuple of numbers
PrintLines(m, rd, outs) ==
    IF m = TestMode
    THEN << <<current_epoch>> >> \o [k \in 1..Len(rd) |-> rd[k].value]
         \o << << SumSeq([i \in 1..Len(outs) |-> outs[i].n_agents]) >> >>
    ELSE <<>>

\* lines 192-193
LogCalls(m, rd) == [k \in 1..Len(rd) |-> <<LogName(m, rd[k].key), rd[k].value>>]

\* itertools.starmap consumed by zip(*all_metrics) at line 168: the calls run
\* in order and stop at the first one that raises
RECURSIVE FirstRaising(_, _)
FirstRaising(outs, i) ==
    IF i > Len(outs) THEN 0
    ELSE IF EvalRaises(outs[i]) THEN i ELSE FirstRaising(outs, i + 1)

StarmapSeqSkipFailures(outs) ==
    LET good == SelectSeq(outs, LAMBDA o : ~EvalRaises(o))
    IN  [raised |-> FALSE,
         metrics |-> [i \in 1..Len(good) |-> eval_one_seq(good[i])],
         called |-> 1..Len(outs)]
StarmapSeq(outs) ==
    LET f == FirstRaising(outs, 1)
    IN  IF f = 0
        THEN [raised |-> FALSE,
              metrics |-> [i \in 1..Len(outs) |-> eval_one_seq(outs[i])],
              called |-> 1..Len(outs)]
        ELSE [raised |-> TRUE, metrics |-> <<>>, called |-> 1..f]

\* lines 168-193 once all_metrics is known; an empty all_metrics cannot be
\* unpacked into four names (ValueError)
EpochEndTail(all_metrics) ==
    IF all_metrics = <<>>
    THEN /\ exc' = "ValueError"
         /\ pc' = "raised"
         /\ UNCHANGED <<results_dict, logged, printed>>
    ELSE LET rd == Aggregate(all_metrics, outputs)
         IN  /\ results_dict' = rd
             /\ printed' = PrintLines(mode, rd, outputs)
             /\ logged' = LogCalls(mode, rd)
             /\ exc' = "none"
             /\ pc' = "done"

InitEpoch ==
    /\ cpu_count = 1
    /\ devices \in {<<>>, <<1>>}
    /\ args_num_workers \in 1..MaxWorkers
    /\ self_num_workers = <<InitNumWorkers(cpu_count, devices, args_num_workers)>>
    /\ mp \in BOOLEAN
    /\ outputs \in UNION { [1..n -> StepOutputs] : n \in 0..MaxSeqs }
    /\ mode \in Modes
    /\ pc = "idle" /\ taskq = <<>> /\ worker = <<>> /\ value = <<>>
    /\ success = TRUE /\ number_left = 0
    /\ evalCalls = [i \in 1..Len(outputs) |-> 0]
    /\ results_dict = <<>> /\ logged = <<>> /\ printed = <<>> /\ exc = "none"
    /\ ValIdle /\ CkptIdle /\ FmtIdle /\ FitIdle

\* what no step of _epoch_end touches
epochFrame == <<initVars, valVars, ckptVars, fmtVars, fitVars>>
poolVars == <<taskq, worker, value, success, number_left>>

\* _epoch_end with args.mp false: lines 165-193
EpochEndSequential ==
    /\ pc = "idle" /\ ~mp
    /\ LET r == StarmapSeq(outputs)
       IN  /\ evalCalls' = [i \in 1..Len(outputs) |->
                               IF i \in r.called THEN evalCalls[i] + 1 ELSE evalCalls[i]]
           /\ IF r.raised
              THEN /\ exc' = "EvalError"
                   /\ pc' = "raised"
                   /\ UNCHANGED <<results_dict, logged, printed>>
              ELSE EpochEndTail(r.metrics)
    /\ UNCHANGED <<epochFrame, outputs, mode, mp, poolVars>>

(* multiprocessing.Pool.starmap as called at lines 160-163 *)

\* the chunk size Pool.starmap picks for n tasks and w workers
Chunksize(n, w) ==
    IF n = 0 THEN 0
    ELSE (n \div (4 * w)) + (IF n % (4 * w) # 0 THEN 1 ELSE 0)

NumChunks(n, cs) ==
    IF cs <= 0 THEN 0 ELSE (n \div cs) + (IF n % cs # 0 THEN 1 ELSE 0)

\* the tasks of chunk c (chunks are numbered from 1)
ChunkOf(outs, c, cs) == SubSeq(outs, (c - 1) * cs + 1, Min(c * cs, Len(outs)))

\* MapResult._set on success: _value[i*cs:(i+1)*cs] = result, i = c - 1
SetValueInCompletionOrder(val, c, cs, result) ==
    LET done == SelectSeq(val, LAMBDA x : x # <<>>)
    IN  done \o result \o SubSeq(val, Len(done) + Len(result) + 1, Len(val))
SetValue(val, c, cs, result) ==
    SubSeq(val, 1, (c - 1) * cs) \o result \o SubSeq(val, c * cs + 1, Len(val))

\* self.num_workers as line 160 reads it
num_workers == self_num_workers[1]

\* with multiprocessing.Pool(self.num_workers) as pool: pool.starmap(...)
\* Pool(0) raises ValueError; otherwise the chunks are queued
EpochEndStartPool ==
    /\ pc = "idle" /\ mp
    /\ IF num_workers < 1
       THEN /\ exc' = "ValueError"
            /\ pc' = "raised"
            /\ UNCHANGED poolVars
       ELSE LET cs == Chunksize(Len(outputs), num_workers)
                nc == NumChunks(Len(outputs), cs)
            IN  /\ worker' = [w \in 1..num_workers |-> 0]
                /\ taskq' = [c \in 1..nc |-> c]
                /\ value' = [i \in 1..Len(outputs) |-> <<>>]
                /\ success' = TRUE
                /\ number_left' = nc
                /\ pc' = "pool"
                /\ exc' = "none"
    /\ UNCHANGED <<epochFrame, outputs, mode, mp, evalCalls,
                   results_dict, logged, printed>>

\* an idle pool worker takes the next chunk off the task queue (the workers
\* are interchangeable: the idle one with the least number stands for any)
WorkerTake ==
    /\ pc = "pool" /\ taskq # <<>>
    /\ \E w \in DOMAIN worker :
          /\ worker[w] = 0
          /\ \A v \in DOMAIN worker : v < w => worker[v] # 0
          /\ worker' = [worker EXCEPT ![w] = Head(taskq)]
    /\ taskq' = Tail(taskq)
    /\ UNCHANGED <<epochFrame, outputs, mode, mp, pc, value, success,
                   number_left, evalCalls, results_dict, logged, printed, exc>>

\* a pool worker runs its chunk (starmapstar: the calls in order, up to the
\* first that raises) and the result reaches MapResult._set
WorkerFinish ==
    /\ pc = "pool"
    /\ \E w \in DOMAIN worker :
          /\ worker[w] # 0
          /\ LET c == worker[w]
                 cs == Chunksize(Len(outputs), num_workers)
                 r == StarmapSeq(ChunkOf(outputs, c, cs))
                 called == { (c - 1) * cs + j : j \in r.called }
             IN  /\ evalCalls' = [i \in 1..Len(outputs) |->
                                     IF i \in called THEN evalCalls[i] + 1 ELSE evalCalls[i]]
                 /\ number_left' = number_left - 1
                 /\ IF ~r.raised /\ success
                    THEN /\ value' = SetValue(value, c, cs, r.metrics)
                         /\ UNCHANGED success
                    ELSE IF r.raised /\ success
                    THEN /\ success' = FALSE
                         /\ value' = << <<"EvalError">> >>
                    ELSE UNCHANGED <<value, success>>
          /\ worker' = [worker EXCEPT ![w] = 0]
    /\ UNCHANGED <<epochFrame, outputs, mode, mp, pc, taskq,
                   results_dict, logged, printed, exc>>

\* MapResult.get() once every chunk has reported: the values, or the stored
\* exception raised again; then lines 168-193
EpochEndJoin ==
    /\ pc = "pool" /\ number_left = 0
    /\ IF success
       THEN EpochEndTail(value)
       ELSE /\ exc' = "EvalError"
            /\ pc' = "raised"
            /\ UNCHANGED <<results_dict, logged, printed>>
    /\ UNCHANGED <<epochFrame, outputs, mode, mp, poolVars, evalCalls>>

NextEpoch ==
    \/ EpochEndSequential
    \/ EpochEndStartPool
    \/ WorkerTake
    \/ WorkerFinish
    \/ EpochEndJoin

SpecEpoch == InitEpoch /\ [][NextEpoch]_vars

EpochFinished == pc \in {"done", "raised"}

\* C1: with args.mp true, whatever the order in which the pool workers take
\* and finish the chunks, a results_dict that _epoch_end builds is the one the
\* sequential starmap (args.mp false) builds over the same outputs, and
\* _epoch_end builds none only where the sequential run builds none either
\* (an eval_one_seq call raises, or there are no outputs) or where the pool
\* itself cannot be created (self.num_workers < 1).
PoolMatchesSequential ==
    (mp /\ EpochFinished) =>
        LET r == StarmapSeq(outputs)
        IN  IF pc = "done"
            THEN /\ ~r.raised /\ r.metrics # <<>>
                 /\ results_dict = Aggregate(r.metrics, outputs)
            ELSE /\ results_dict = <<>>
                 /\ r.raised \/ r.metrics = <<>> \/ num_workers < 1

\* two sequences with different metrics and agent counts went through a pool
\* of two workers and were aggregated
PoolMatchesSequentialWitness ==
    /\ mp /\ num_workers >= 2 /\ pc = "done"
    /\ Len(outputs) >= 2
    /\ outputs[1] # outputs[2]
    /\ results_dict # <<>>

AnyEvalRaises == \E i \in 1..Len(outputs) : EvalRaises(outputs[i])

\* C3: when eval_one_seq raises for some sequence, no sequence is evaluated
\* twice, nothing is logged or printed and no results_dict is built at any
\* point of _epoch_end, and _epoch_end can only end by raising.
FailureLogsNothing ==
    AnyEvalRaises =>
        /\ logged = <<>> /\ printed = <<>> /\ results_dict = <<>>
        /\ \A i \in 1..Len(outputs) : evalCalls[i] <= 1
        /\ EpochFinished => (pc = "raised" /\ exc # "none")

\* eval_one_seq raised for one sequence after it had returned for another
FailureLogsNothingWitness ==
    /\ pc = "raised" /\ exc = "EvalError"
    /\ \E i, j \in 1..Len(outputs) :
          /\ ~EvalRaises(outputs[i]) /\ evalCalls[i] = 1
          /\ EvalRaises(outputs[j]) /\ evalCalls[j] = 1

\* the sums of the claim, over the set of sequence numbers
RECURSIVE SumOver(_, _)
SumOver(S, f) ==
    IF S = {} THEN 0
    ELSE LET i == CHOOSE x \in S : TRUE IN f[i] + SumOver(S \ {i}, f)

NameHas(sub, key) ==
    \E i \in 1..Len(key) : \E j \in i..Len(key) : SubSeq(key, i, j) = sub

ExpectedMetric(k) ==
    LET S == 1..Len(outputs)
        val == [i \in S |-> eval_one_seq(outputs[i])[k]]
        wval == [i \in S |-> val[i] * outputs[i].n_agents]
        n == [i \in S |-> outputs[i].n_agents]
    IN  IF NameHas(<<"_","j","o","i","n","t">>, StatsKeys[k])
           \/ NameHas(<<"C","R">>, StatsKeys[k])
        THEN <<SumOver(S, val), Cardinality(S)>>
        ELSE <<SumOver(S, wval), SumOver(S, n)>>

\* C6: when _epoch_end completes, results_dict has the keys of stats_func in
\* order, the k-th built from the k-th value of every sequence: the plain
\* mean for a key containing '_joint' or 'CR', the agent-weighted mean
\* otherwise; and each is logged under '<mode>/<key>'.
MetricsAggregatedPerKey ==
    pc = "done" =>
        /\ Len(results_dict) = Len(StatsKeys)
        /\ \A k \in 1..Len(StatsKeys) :
              /\ results_dict[k].key = StatsKeys[k]
              /\ results_dict[k].value = ExpectedMetric(k)
              /\ logged[k] = <<mode \o <<"/">> \o StatsKeys[k], ExpectedMetric(k)>>

\* two sequences with different agent counts were aggregated
MetricsAggregatedPerKeyWitness ==
    /\ pc = "done"
    /\ \E i, j \in 1..Len(outputs) : outputs[i].n_agents # outputs[j].n_agents

----------------------------------------------------------------------------
(* validation_step and on_validation_epoch_end, lines 125-128 and 252-255 *)

ValMode == <<"v","a","l">>

\* _epoch_end(outs, m) run to its end in one call, with args.mp false
\* (lines 155-193): the call either raises or builds and logs results_dict
EpochEndRaises(outs) == outs = <<>> \/ StarmapSeq(outs).raised

EpochEndCall(outs, m) ==
    LET r == StarmapSeq(outs)
    IN  /\ outputs' = outs
        /\ mode' = m
        /\ evalCalls' = [i \in 1..Len(outs) |-> IF i \in r.called THEN 1 ELSE 0]
        /\ IF r.raised
           THEN /\ exc' = "EvalError" /\ pc' = "raised"
                /\ results_dict' = <<>> /\ logged' = <<>> /\ printed' = <<>>
           ELSE IF r.metrics = <<>>
           THEN /\ exc' = "ValueError" /\ pc' = "raised"
                /\ results_dict' = <<>> /\ logged' = <<>> /\ printed' = <<>>
           ELSE LET rd == Aggregate(r.metrics, outs)
                IN  /\ results_dict' = rd
                    /\ printed' = PrintLines(m, rd, outs)
                    /\ logged' = LogCalls(m, rd)
                    /\ exc' = "none" /\ pc' = "done"
        /\ UNCHANGED <<mp, poolVars>>

\* self.validation_step_outputs after on_validation_epoch_end: line 255 is
\* reached only when line 253 did not raise
AfterValEpochEnd(outs) == IF EpochEndRaises(outs) THEN outs ELSE <<>>

InitVal ==
    /\ CtorIdle /\ EpochIdle /\ ValIdle /\ CkptIdle /\ FmtIdle /\ FitIdle

\* validation_step: the output of _step(batch, 'val') is appended (the
\* self.log calls of _step go to the framework's logger only)
validation_step ==
    /\ valCalls < MaxValCalls
    /\ \E o \in StepOutputs :
          /\ validation_step_outputs' = Append(validation_step_outputs, o)
          /\ valSince' = Append(valSince, o)
    /\ valLast' = "step"
    /\ valCalls' = valCalls + 1
    /\ UNCHANGED <<initVars, epochVars, ckptVars, fmtVars, fitVars, valExpected,
                   valAggregated>>

on_validation_epoch_end ==
    /\ valCalls < MaxValCalls
    /\ EpochEndCall(validation_step_outputs, ValMode)
    /\ validation_step_outputs' = AfterValEpochEnd(validation_step_outputs)
    /\ valAggregated' = validation_step_outputs
    /\ valExpected' = valSince
    /\ valSince' = <<>>
    /\ valLast' = "epoch_end"
    /\ valCalls' = valCalls + 1
    /\ UNCHANGED <<initVars, ckptVars, fmtVars, fitVars>>

NextVal == validation_step \/ on_validation_epoch_end
SpecVal == InitVal /\ [][NextVal]_vars

\* C8: every on_validation_epoch_end call aggregates exactly the outputs of
\* the validation_step calls made since the previous on_validation_epoch_end
\* call, in step order, whether or not that previous call raised, and leaves
\* validation_step_outputs empty.
ValEpochAggregatesOwnSteps ==
    valLast = "epoch_end" =>
        /\ valAggregated = valExpected
        /\ validation_step_outputs = <<>>

----------------------------------------------------------------------------
(* on_load_checkpoint, lines 260-266 *)

\* A dictionary is a function on its set of keys; d[k] = v for a key that may
\* be new
Put(dict, k, v) == [x \in DOMAIN dict \cup {k} |-> IF x = k THEN v ELSE dict[x]]

\* f'model.{k}'
ModelKey(k) == <<"m","o","d","e","l",".">> \o k

\* {f'model.{k}': v for k, v in model_dict.items()}
PrefixedStateDict(model_dict) ==
    [mk \in {ModelKey(k) : k \in DOMAIN model_dict} |->
        model_dict[CHOOSE k \in DOMAIN model_dict : ModelKey(k) = mk]]

\* the parameter names and the model_dict values of the checkpoints handed in
ParamNames == { <<"w">>, <<"b">> }
ModelDicts == UNION { [ks -> {1, 2}] : ks \in SUBSET ParamNames }

\* the value a handed-in checkpoint holds under key k (model_dict apart)
StoredValue(k) ==
    CASE k = "epoch"            -> 3
      [] k = "scheduler_dict"   -> "scheduler"
      [] k = "opt_dict"         -> "optimizer"
      [] k = "state_dict"       -> [x \in {<<"w">>} |-> 7]
      [] k = "global_step"      -> <<40>>
      [] k = "lr_schedulers"    -> <<"old scheduler">>
      [] k = "optimizer_states" -> <<"old optimizer">>

StoredKeys == {"epoch", "scheduler_dict", "opt_dict", "state_dict",
               "global_step", "lr_schedulers", "optimizer_states"}

Checkpoints ==
    { [k \in ks |-> StoredValue(k)] : ks \in SUBSET StoredKeys }
    \cup { Put([k \in ks |-> StoredValue(k)], "model_dict", md) :
              ks \in SUBSET StoredKeys, md \in ModelDicts }

Has(dict, k) == k \in DOMAIN dict

\* lines 261-266, statement by statement; a missing key raises KeyError and
\* leaves the assignments made so far in place
LoadCheckpoint(c) ==
    IF Has(c, "model_dict") /\ Has(c, "epoch")
    THEN LET c1 == Put(c, "state_dict", PrefixedStateDict(c["model_dict"]))
             c2 == Put(c1, "global_step", <<>>)
         IN  IF ~Has(c2, "scheduler_dict")
             THEN [ckpt |-> c2, result |-> "KeyError"]
             ELSE LET c3 == Put(c2, "lr_schedulers", <<c2["scheduler_dict"]>>)
                  IN  IF ~Has(c3, "opt_dict")
                      THEN [ckpt |-> c3, result |-> "KeyError"]
                      ELSE [ckpt |-> Put(c3, "optimizer_states", <<c3["opt_dict"]>>),
                            result |-> "returned"]
    ELSE IF Has(c, "epoch")
         THEN [ckpt |-> c, result |-> "returned"]
         ELSE [ckpt |-> c, result |-> "KeyError"]

InitCkpt ==
    /\ CtorIdle /\ EpochIdle /\ ValIdle /\ FmtIdle /\ FitIdle
    /\ checkpoint \in Checkpoints
    /\ ckptBefore = <<>>
    /\ ckptResult = "none"

on_load_checkpoint ==
    /\ ckptResult = "none"
    /\ ckptBefore' = checkpoint
    /\ checkpoint' = LoadCheckpoint(checkpoint).ckpt
    /\ ckptResult' = LoadCheckpoint(checkpoint).result
    /\ UNCHANGED <<initVars, epochVars, valVars, fmtVars, fitVars>>

NextCkpt == on_load_checkpoint
SpecCkpt == InitCkpt /\ [][NextCkpt]_vars

\* C9: on_load_checkpoint adapts the checkpoint exactly when it holds both
\* 'model_dict' and 'epoch': then state_dict has one entry 'model.<k>' per key
\* k of model_dict with the same value, and lr_schedulers and
\* optimizer_states are the one-element lists of scheduler_dict and opt_dict;
\* otherwise the call returns normally and the checkpoint is unchanged.
CheckpointAdaptedIffOldFormat ==
    ckptResult # "none" =>
        IF Has(ckptBefore, "model_dict") /\ Has(ckptBefore, "epoch")
        THEN /\ Has(checkpoint, "state_dict")
             /\ DOMAIN checkpoint["state_dict"] =
                    {ModelKey(k) : k \in DOMAIN ckptBefore["model_dict"]}
             /\ \A k \in DOMAIN ckptBefore["model_dict"] :
                    checkpoint["state_dict"][ModelKey(k)] = ckptBefore["model_dict"][k]
             /\ Has(checkpoint, "lr_schedulers") /\ Has(ckptBefore, "scheduler_dict")
             /\ checkpoint["lr_schedulers"] = <<ckptBefore["scheduler_dict"]>>
             /\ Has(checkpoint, "optimizer_states") /\ Has(ckptBefore, "opt_dict")
             /\ checkpoint["optimizer_states"] = <<ckptBefore["opt_dict"]>>
        ELSE /\ ckptResult = "returned"
             /\ checkpoint = ckptBefore

----------------------------------------------------------------------------
(* format_agentformer_trajectories, lines 36-75, and test_step, lines 130-153 *)

\* the dataset names of lines 50-53, 66 and 69
Eth == <<"e","t","h">>
Hotel == <<"h","o","t","e","l">>
Univ == <<"u","n","i","v">>
Zara1 == <<"z","a","r","a","1">>
Zara2 == <<"z","a","r","a","2">>
Gen == <<"g","e","n">>
RealGen == <<"r","e","a","l","_","g","e","n">>
Adversarial == <<"a","d","v","e","r","s","a","r","i","a","l">>
TrajnetSdd == <<"t","r","a","j","n","e","t","_","s","d","d">>
Sdd == <<"s","d","d">>
NuscenesPred == <<"n","u","s","c","e","n","e","s","_","p","r","e","d">>

PositionIn1315 == {Eth, Hotel, Univ, Zara1, Zara2, Gen, RealGen, Adversarial}
CutToFourColumns == {Eth, Hotel, Univ, Zara1, Zara2}
IsSdd(ds) == Contains(<<"s","d","d">>, ds)
Datasets == PositionIn1315 \cup {TrajnetSdd, Sdd, NuscenesPred}

\* column numbers of a data row
FrameCol == 0
TrackCol == 1
XCol == 13
ZCol == 15
SddXCol == 2
SddYCol == 3
\* the least row widths the indexing of lines 55 and 57 needs
WideRowWidth == 16
SddRowWidth == 4
\* timesteps of test_step's calls
FutureTimesteps == 12
ObsTimesteps == 8

TrackIds == {3, 5}
Frames == {8, 20}
FrameScales == {1, 10}

\* the position of track id at frame f in the scene
GtX(id, f) == 100 * id + f
GtY(id, f) == 100 * id + f + 50

\* the data row of track id at frame f
DataRow(ds, f, id) ==
    IF IsSdd(ds)
    THEN [c \in 0..(SddRowWidth - 1) |->
            CASE c = FrameCol -> f [] c = TrackCol -> id
              [] c = SddXCol -> GtX(id, f) [] c = SddYCol -> GtY(id, f)]
    ELSE [c \in 0..(WideRowWidth - 1) |->
            CASE c = FrameCol -> f [] c = TrackCol -> id
              [] c = XCol -> GtX(id, f) [] c = ZCol -> GtY(id, f)
              [] OTHER -> -1]

Size(arr) == Cardinality(DOMAIN arr)

\* the batch of a scene: fut_data[j] is the data of the (j+1)-th future frame,
\* pre_data[j] the data of the frame j steps back from the current one
MakeBatch(ds, ids, mask, f, scale) ==
    [valid_id |-> ids, pred_mask |-> mask, frame |-> f, frame_scale |-> scale,
     fut_data |-> [j \in 0..(FutureTimesteps - 1) |->
                     [i \in DOMAIN ids |-> DataRow(ds, f + 1 + j, ids[i])]],
     pre_data |-> [j \in 0..(ObsTimesteps - 1) |->
                     [i \in DOMAIN ids |-> DataRow(ds, f - j, ids[i])]]]

\* the motions _step returns for the batch, lines 114-116:
\* gt_motion[i][j], obs_motion.transpose(0, 1)[i][t], and sample s of
\* pred_motion.transpose(0, 1), each a position <<x, y>>
GtMotion(b) ==
    [i \in DOMAIN b.valid_id |-> [j \in 0..(FutureTimesteps - 1) |->
        <<GtX(b.valid_id[i], b.frame + 1 + j), GtY(b.valid_id[i], b.frame + 1 + j)>>]]
ObsFrame(b, t) == b.frame - (ObsTimesteps - 1) + t
ObsMotionT(b) ==
    [i \in DOMAIN b.valid_id |-> [t \in 0..(ObsTimesteps - 1) |->
        <<GtX(b.valid_id[i], ObsFrame(b, t)), GtY(b.valid_id[i], ObsFrame(b, t))>>]]
PredSample(b, s) ==
    [i \in DOMAIN b.valid_id |-> [j \in 0..(FutureTimesteps - 1) |->
        <<GtMotion(b)[i][j][1] + 1000 * (s + 1), GtMotion(b)[i][j][2] + 1000 * (s + 1)>>]]

\* torch.flip(trajectory, [0, 1]), line 39
Flip01(traj) ==
    [i \in DOMAIN traj |-> [j \in DOMAIN traj[i] |->
        traj[Size(traj) - 1 - i][Size(traj[i]) - 1 - j]]]

\* line 41: the agents of valid_id that are not skipped, in order
Passes(data, i) == data.pred_mask = <<>> \/ data.pred_mask[1][i] = 1
RECURSIVE PassingFrom(_, _)
PassingFrom(data, i) ==
    IF i >= Size(data.valid_id) THEN <<>>
    ELSE (IF Passes(data, i) THEN <<i>> ELSE <<>>) \o PassingFrom(data, i + 1)

\* line 49: curr_data[curr_data[:, 1] == track_id].squeeze()
RowOfTrack(curr_data, track_id) ==
    curr_data[CHOOSE i \in DOMAIN curr_data : curr_data[i][TrackCol] = track_id]

\* lines 44-57 for agent i and timestep j, the dataset being a known one
UpdatedRow(traj, data, ds, future, i, j) ==
    LET curr_data == IF future THEN data.fut_data[j] ELSE data.pre_data[j]
        updated_data == RowOfTrack(curr_data, data.valid_id[i])
    IN  IF ds \in PositionIn1315
        THEN [updated_data EXCEPT ![XCol] = traj[i][j][1], ![ZCol] = traj[i][j][2]]
        ELSE [updated_data EXCEPT ![SddXCol] = traj[i][j][1], ![SddYCol] = traj[i][j][2]]

\* formatted_trajectories[:, [0, 1, 13, 15]], line 67
CutColumns(row) ==
    [c \in 0..3 |-> row[ CASE c = 0 -> FrameCol [] c = 1 -> TrackCol
                           [] c = 2 -> XCol [] c = 3 -> ZCol ]]

Reverse(rows) == [k \in 1..Len(rows) |-> rows[Len(rows) + 1 - k]]

\* an array result: its shape and its rows; np.array([]) has shape (0,)
ArrayOf(rows) ==
    [kind |-> "array",
     shape |-> IF rows = <<>> THEN <<0>> ELSE <<Len(rows), Size(rows[1])>>,
     rows |-> rows]
Raised(e) == [kind |-> e, shape |-> <<>>, rows |-> <<>>]

\* format_agentformer_trajectories(trajectory, data, cfg, timesteps,
\* frame_scale, future); timesteps stays within the frames data holds
Format(trajectory, data, ds, timesteps, frame_scale, future) ==
    LET traj == IF future THEN trajectory ELSE Flip01(trajectory)
        passing == PassingFrom(data, 0)
        count == Len(passing) * timesteps
    IN  IF count = 0 THEN ArrayOf(<<>>)
        ELSE IF ~(ds \in PositionIn1315 \/ IsSdd(ds))
        THEN Raised("NotImplementedError")
        ELSE
          LET rows == [k \in 1..count |->
                         UpdatedRow(traj, data, ds, future,
                                    passing[((k - 1) \div timesteps) + 1],
                                    (k - 1) % timesteps)]
              cut == IF ds \in CutToFourColumns
                     THEN [k \in 1..count |->
                             [CutColumns(rows[k]) EXCEPT ![0] = @ * frame_scale]]
                     ELSE IF ds = TrajnetSdd
                     THEN [k \in 1..count |-> [rows[k] EXCEPT ![FrameCol] = @ * frame_scale]]
                     ELSE rows
          IN  ArrayOf(IF future THEN cut ELSE Reverse(cut))

ValidIds ==
    UNION { { ids \in [0..(n - 1) -> TrackIds] :
                \A i, j \in 0..(n - 1) : i # j => ids[i] # ids[j] } : n \in 0..MaxAgents }

PredMasks(n) == {<<>>} \cup { <<m>> : m \in [0..(n - 1) -> {0, 1}] }

InitFormat ==
    /\ CtorIdle /\ EpochIdle /\ ValIdle /\ CkptIdle /\ FitIdle
    /\ cfg_dataset \in Datasets
    /\ \E ids \in ValidIds : \E mask \in PredMasks(Size(ids)) :
       \E f \in Frames : \E scale \in FrameScales :
          batch = MakeBatch(cfg_dataset, ids, mask, f, scale)
    /\ save_traj \in BOOLEAN
    /\ n_samples \in 1..MaxSamples
    /\ fmtCall = <<>> /\ fmtOut = <<>> /\ saved = <<>> /\ tsResult = "none"

fmtFrame == <<initVars, epochVars, valVars, ckptVars, fitVars>>

\* one call of format_agentformer_trajectories on the batch
FormatCall ==
    /\ fmtCall = <<>>
    /\ \E ts \in 0..MaxTimesteps : \E fut \in BOOLEAN :
          /\ fmtCall' = [timesteps |-> ts, future |-> fut]
          /\ fmtOut' = Format(IF fut THEN GtMotion(batch) ELSE ObsMotionT(batch),
                              batch, cfg_dataset, ts, batch.frame_scale, fut)
    /\ UNCHANGED <<fmtFrame, cfg_dataset, batch, save_traj, n_samples, saved, tsResult>>

\* the arrays of lines 142-151, in the order they are formatted
TestStepArrays(b, ds, ns) ==
    [s \in 1..ns |->
        [suffix |-> "/sample", idx |-> s - 1,
         arr |-> Format(PredSample(b, s - 1), b, ds, FutureTimesteps, b.frame_scale, TRUE)]]
    \o << [suffix |-> "/gt", idx |-> 0,
           arr |-> Format(GtMotion(b), b, ds, FutureTimesteps, b.frame_scale, TRUE)],
          [suffix |-> "/obs", idx |-> 0,
           arr |-> Format(ObsMotionT(b), b, ds, ObsTimesteps, b.frame_scale, FALSE)] >>

\* the first k with arrs[k] raised, 0 if none
RECURSIVE FirstRaised(_, _)
FirstRaised(arrs, k) ==
    IF k > Len(arrs) THEN 0
    ELSE IF arrs[k].arr.kind # "array" THEN k ELSE FirstRaised(arrs, k + 1)

\* test_step, lines 130-153: with args.save_traj every formatted array goes
\* to save_trajectories; a raise of the formatting leaves test_step
test_step ==
    /\ tsResult = "none"
    /\ IF ~save_traj
       THEN saved' = <<>> /\ tsResult' = "returned"
       ELSE LET arrs == TestStepArrays(batch, cfg_dataset, n_samples)
                r == FirstRaised(arrs, 1)
            IN  IF r = 0
                THEN saved' = arrs /\ tsResult' = "returned"
                ELSE saved' = SubSeq(arrs, 1, r - 1) /\ tsResult' = arrs[r].arr.kind
    /\ UNCHANGED <<fmtFrame, cfg_dataset, batch, save_traj, n_samples, fmtCall, fmtOut>>

NextFormat == FormatCall \/ test_step
SpecFormat == InitFormat /\ [][NextFormat]_vars

KnownDataset(ds) ==
    ds \in {Eth, Hotel, Univ, Zara1, Zara2, Gen, RealGen, Adversarial} \/ IsSdd(ds)

\* C4: called with a dataset that is neither one of the eight listed names nor
\* contains 'sdd', format_agentformer_trajectories raises NotImplementedError
\* and returns nothing, whatever valid_id, pred_mask and timesteps are.
UnsupportedDatasetAlwaysRaises ==
    (fmtCall # <<>> /\ ~KnownDataset(cfg_dataset)) =>
        fmtOut.kind = "NotImplementedError"

\* C5: every array test_step hands to save_trajectories is two-dimensional
\* with exactly four columns [frame_id, track_id, x, y], for every accepted
\* dataset, also when no agent passes pred_mask.
SavedArraysHaveFourColumns ==
    \A k \in 1..Len(saved) :
        /\ Len(saved[k].arr.shape) = 2
        /\ saved[k].arr.shape[2] = 4
        /\ \A r \in 1..Len(saved[k].arr.rows) : DOMAIN saved[k].arr.rows[r] = 0..3

\* the columns holding x and y in a formatted row
OutXCol(ds) == IF ds \in {Gen, RealGen, Adversarial} THEN 13 ELSE 2
OutYCol(ds) == IF ds \in {Gen, RealGen, Adversarial} THEN 15 ELSE 3
OutFrame(ds, f, scale) ==
    IF ds \in {Eth, Hotel, Univ, Zara1, Zara2, TrajnetSdd} THEN f * scale ELSE f

\* C7: in the observation dump of test_step (future = False), every row whose
\* track_id is valid_id[i] of an agent i that passes pred_mask carries the
\* position the input trajectory holds for that agent i at the observed
\* timestep of the row's frame.
ObsRowsCarryOwnAgent ==
    \A k \in 1..Len(saved) :
        saved[k].suffix = "/obs" =>
            \A r \in 1..Len(saved[k].arr.rows) :
            \A i \in DOMAIN batch.valid_id :
                LET row == saved[k].arr.rows[r]
                IN  (Passes(batch, i) /\ row[1] = batch.valid_id[i]) =>
                        \E t \in 0..(ObsTimesteps - 1) :
                            /\ row[0] = OutFrame(cfg_dataset, ObsFrame(batch, t),
                                                 batch.frame_scale)
                            /\ row[OutXCol(cfg_dataset)] = ObsMotionT(batch)[i][t][1]
                            /\ row[OutYCol(cfg_dataset)] = ObsMotionT(batch)[i][t][2]

----------------------------------------------------------------------------
(* A fit run: the framework (pl.LightningModule's trainer) drives the hooks *)

\* the methods class AgentFormerTrainer defines, lines 79-268
TrainerMethods ==
    {"__init__", "update_args", "on_test_start", "on_fit_start", "_step",
     "training_step", "validation_step", "test_step", "_epoch_end", "_save_viz",
     "train_epoch_end", "on_validation_epoch_end", "test_epoch_end",
     "on_load_checkpoint", "configure_optimizers"}

\* the names under which the framework calls a module at the end of a
\* training epoch; a module that defines neither inherits hooks that do
\* nothing
FrameworkTrainEpochEndHooks == {"on_train_epoch_end", "training_epoch_end"}

\* the trainer method the framework reaches at the end of a training epoch
TrainEpochEndReached ==
    FrameworkTrainEpochEndHooks \cap TrainerMethods # {}

InitFit ==
    /\ CtorIdle /\ EpochIdle /\ ValIdle /\ CkptIdle /\ FmtIdle
    /\ fitPc = "start" /\ fitEpoch = 0 /\ fitBatch = 0 /\ device_set = FALSE
    /\ train_aggregated = 0 /\ annealer_steps = 0

fitFrame == <<initVars, ckptVars, fmtVars>>

\* on_fit_start, lines 101-102
on_fit_start ==
    /\ fitPc = "start"
    /\ device_set' = TRUE
    /\ fitPc' = "train"
    /\ UNCHANGED <<fitFrame, epochVars, valVars, fitEpoch, fitBatch,
                   train_aggregated, annealer_steps>>

\* training_step, lines 120-123: returns the output of _step(batch, 'train')
training_step ==
    /\ fitPc = "train" /\ fitBatch < MaxBatches
    /\ fitBatch' = fitBatch + 1
    /\ UNCHANGED <<fitFrame, epochVars, valVars, fitPc, fitEpoch, device_set,
                   train_aggregated, annealer_steps>>

\* the training batches of the epoch are through: the validation loop starts
StartValidation ==
    /\ fitPc = "train" /\ fitBatch >= 1
    /\ fitPc' = "val"
    /\ fitBatch' = 0
    /\ UNCHANGED <<fitFrame, epochVars, valVars, fitEpoch, device_set,
                   train_aggregated, annealer_steps>>

\* validation_step under the fit loop, lines 125-128
FitValidationStep ==
    /\ fitPc = "val" /\ fitBatch < MaxBatches
    /\ \E o \in StepOutputs :
          /\ validation_step_outputs' = Append(validation_step_outputs, o)
          /\ valSince' = Append(valSince, o)
    /\ valLast' = "step"
    /\ fitBatch' = fitBatch + 1
    /\ UNCHANGED <<fitFrame, epochVars, valExpected, valAggregated, valCalls,
                   fitPc, fitEpoch, device_set, train_aggregated, annealer_steps>>

\* on_validation_epoch_end under the fit loop, lines 252-255; an exception
\* leaves the fit run
FitValidationEpochEnd ==
    /\ fitPc = "val"
    /\ EpochEndCall(validation_step_outputs, ValMode)
    /\ validation_step_outputs' = AfterValEpochEnd(validation_step_outputs)
    /\ valAggregated' = validation_step_outputs
    /\ valExpected' = valSince
    /\ valSince' = <<>>
    /\ valLast' = "epoch_end"
    /\ fitPc' = IF EpochEndRaises(validation_step_outputs) THEN "aborted" ELSE "epoch_end"
    /\ fitBatch' = 0
    /\ UNCHANGED <<fitFrame, valCalls, fitEpoch, device_set, train_aggregated,
                   annealer_steps>>

\* the framework's end-of-training-epoch hook; train_epoch_end (lines
\* 246-248) runs _epoch_end(outputs, 'train') and model.step_annealer() when
\* the framework reaches it
TrainEpochEndHook ==
    /\ fitPc = "epoch_end"
    /\ IF TrainEpochEndReached
       THEN /\ train_aggregated' = train_aggregated + 1
            /\ annealer_steps' = annealer_steps + 1
       ELSE UNCHANGED <<train_aggregated, annealer_steps>>
    /\ fitEpoch' = fitEpoch + 1
    /\ fitPc' = IF fitEpoch + 1 >= MaxEpochs THEN "done" ELSE "train"
    /\ UNCHANGED <<fitFrame, epochVars, valVars, fitBatch, device_set>>

NextFit ==
    \/ on_fit_start
    \/ training_step
    \/ StartValidation
    \/ FitValidationStep
    \/ FitValidationEpochEnd
    \/ TrainEpochEndHook

SpecFit == InitFit /\ [][NextFit]_vars

\* C10: in a fit run driven by the framework's hooks, model.step_annealer has
\* been called exactly once for every training epoch that ended, each time
\* after that epoch's _epoch_end(outputs, 'train').
AnnealerSteppedEveryEpoch ==
    /\ annealer_steps = fitEpoch
    /\ train_aggregated = fitEpoch

====
